---- MODULE Spec2Model ----
(***************************************************************************)
(* regatta_opt.py: optimize_regatta_schedule builds a CP-SAT model over    *)
(* one start-time variable per heat and one lane variable per boat, hands  *)
(* it to the solver and turns the solver's values into a schedule;         *)
(* generate_races derives the races, and the module-level script prints    *)
(* the schedule as a running order.                                        *)
(*                                                                         *)
(* Strings are sequences of character codes (ASCII), so that Python's      *)
(* string comparison, concatenation, split and indexing are computed.      *)
(* A dict is a function; its insertion order is not modelled: nothing in   *)
(* the constraints, the returned values or the sorted report reads it.     *)
(***************************************************************************)
EXTENDS Integers, Sequences, FiniteSets, TLC

VARIABLES
    race_definitions,   \* argument of generate_races: boat_type -> category -> divisions
    boats_per_race,     \* argument of generate_races: boat_type -> number of boats
    races,              \* race_name -> list of heats, a heat a list of boat ids
    num_lanes,
    start_time,
    end_time,
    pc,                 \* position of the program
    sorted_races,       \* sorted(race_starts.keys())
    boat_vars,          \* the keys of boat_lanes, listed
    status,             \* what solver.Solve returned
    solution,           \* the values solver.Value reads after a successful solve
    outcome,            \* how optimize_regatta_schedule ended
    schedule,           \* the returned schedule (optimized_schedule)
    sorted_heats,       \* the report's list of heat tuples
    race_number,        \* the report's counter
    output              \* the report's printed lines

vars == <<race_definitions, boats_per_race, races, num_lanes, start_time, end_time,
          pc, sorted_races, boat_vars, status, solution, outcome, schedule, sorted_heats,
          race_number, output>>

----------------------------------------------------------------------------
(* Strings *)

Ord_a == 97
Ord_underscore == 95

Str_1x == <<49, 120>>                       \* "1x"
Str_2x == <<50, 120>>                       \* "2x"
Str_2minus == <<50, 45>>                    \* "2-"
Str_Heat == <<95, 72, 101, 97, 116, 95>>    \* "_Heat_"
Str_Open == <<79, 112, 101, 110>>           \* "Open"
Str_Mens == <<77, 101, 110, 115>>           \* "Mens"
Str_Womens == <<87, 111, 109, 101, 110, 115>>   \* "Womens"

Min(S) == CHOOSE x \in S : \A y \in S : x <= y

\* Python's s < t on str: the first differing character decides, a proper
\* prefix is smaller.
StrLess(s, t) ==
    \E k \in 1..Len(t) :
        /\ k <= Len(s) + 1
        /\ \A j \in 1..(k - 1) : s[j] = t[j]
        /\ (k = Len(s) + 1 \/ s[k] < t[k])

\* Python's sorted() on a collection of distinct strings.
RECURSIVE sorted(_)
sorted(S) ==
    IF S = {} THEN <<>>
    ELSE LET m == CHOOSE x \in S : \A y \in S \ {x} : StrLess(x, y)
         IN  <<m>> \o sorted(S \ {m})

\* race_name.split("_")[0]
BoatTypeOf(race_name) ==
    LET at == {i \in 1..Len(race_name) : race_name[i] = Ord_underscore}
    IN  IF at = {} THEN race_name ELSE SubSeq(race_name, 1, Min(at) - 1)

\* f"{race_name}_Heat_{chr(ord('a') + heat_index)}", heat_index from 0
HeatName(race_name, heat_index) == race_name \o Str_Heat \o <<Ord_a + heat_index>>

\* f"{heat_name}_Boat_{boat_id}": the pair stands for the string (the text
\* after the last "_Boat_" is the number, so the string determines the pair).
BoatName(heat_name, boat_id) == <<heat_name, boat_id>>

----------------------------------------------------------------------------
(* The constraint model built by optimize_regatta_schedule *)

Cadence == 8
Noon == 12 * 60

\* keys of race_starts (lines 14-19)
HeatNames ==
    UNION {{HeatName(r, i - 1) : i \in 1..Len(races[r])} : r \in DOMAIN races}

\* the (race_name, heat position) pairs the loops over races.items() visit
Heats ==
    UNION {{<<r, i>> : i \in 1..Len(races[r])} : r \in DOMAIN races}

\* keys of boat_lanes (lines 20-24)
BoatNames ==
    UNION {{BoatName(HeatName(h[1], h[2] - 1), races[h[1]][h[2]][k]) :
                k \in 1..Len(races[h[1]][h[2]])} : h \in Heats}

\* Mutants of the two domains: the start window stretched by one slot, lane 0 allowed.
StartDomain_PlusSlot == start_time..(end_time + Cadence)
LaneDomain_FromZero == 0..num_lanes

\* NewIntVar(start_time, end_time, ...) and NewIntVar(1, num_lanes, ...)
StartDomain == start_time..end_time
LaneDomain == 1..num_lanes

\* A constraint is stated on an assignment of some of the variables and binds
\* once all the variables it mentions have a value; on a full assignment it is
\* the constraint the code adds.
Assigned(x, keys) == keys \subseteq DOMAIN x

\* Mutant of Constraint1: the anchor is not added.
Constraint1_Missing(rs) == TRUE

\* 1. model.Add(race_starts[sorted(race_starts.keys())[0]] == start_time)
Constraint1(rs) ==
    Assigned(rs, {sorted_races[1]}) => rs[sorted_races[1]] = start_time

\* Mutants of Constraint2: "at least 8 minutes later", and the + 8 left out.
Constraint2_AtLeast(rs) ==
    \A i \in 1..(Len(sorted_races) - 1) :
        Assigned(rs, {sorted_races[i], sorted_races[i + 1]}) =>
            rs[sorted_races[i + 1]] >= rs[sorted_races[i]] + Cadence

Constraint2_NoGap(rs) ==
    \A i \in 1..(Len(sorted_races) - 1) :
        Assigned(rs, {sorted_races[i], sorted_races[i + 1]}) =>
            rs[sorted_races[i + 1]] = rs[sorted_races[i]]

\* 2. model.Add(race_starts[sorted_races[i + 1]] == race_starts[sorted_races[i]] + 8)
Constraint2(rs) ==
    \A i \in 1..(Len(sorted_races) - 1) :
        Assigned(rs, {sorted_races[i], sorted_races[i + 1]}) =>
            rs[sorted_races[i + 1]] = rs[sorted_races[i]] + Cadence

\* 3. for each t a fresh BoolVar is_concurrent per heat, each enforcing its two
\* inequalities only if true, and their sum at most num_lanes
time_points == start_time..end_time

Constraint3(rs) ==
    LET heat_names == HeatNames
    IN  Assigned(rs, heat_names) =>
            \A t \in time_points :
                \E is_concurrent \in [heat_names -> BOOLEAN] :
                    /\ \A h \in heat_names : is_concurrent[h] => rs[h] <= t
                    /\ \A h \in heat_names : is_concurrent[h] => rs[h] + Cadence > t
                    /\ Cardinality({h \in heat_names : is_concurrent[h]}) <= num_lanes

\* Mutant of Constraint4_1x: <= 12 * 60 for < 12 * 60.
Constraint4_1x_AtNoon(rs) ==
    \A h \in Heats :
        LET boat_type == BoatTypeOf(h[1])
            heat_name == HeatName(h[1], h[2] - 1)
        IN  (boat_type = Str_1x /\ Assigned(rs, {heat_name})) => rs[heat_name] <= Noon

\* 4. (lines 49-52) boat_type == "1x": model.Add(race_starts[heat_name] < 12 * 60)
Constraint4_1x(rs) ==
    \A h \in Heats :
        LET boat_type == BoatTypeOf(h[1])
            heat_name == HeatName(h[1], h[2] - 1)
        IN  (boat_type = Str_1x /\ Assigned(rs, {heat_name})) => rs[heat_name] < Noon

\* Mutant of BeforeNoonIndicator: before_noon itself required to hold.
BeforeNoonIndicator_Enforced(start) ==
    \E before_noon \in BOOLEAN :
        /\ before_noon
        /\ before_noon => start < Noon
        /\ ~before_noon => start >= Noon

\* (lines 56-60) a fresh BoolVar before_noon with
\* (start < 12 * 60).OnlyEnforceIf(before_noon) and
\* (start >= 12 * 60).OnlyEnforceIf(before_noon.Not())
BeforeNoonIndicator(start) ==
    \E before_noon \in BOOLEAN :
        /\ before_noon => start < Noon
        /\ ~before_noon => start >= Noon

\* 4. (lines 53-60) boat_type in ["2x", "2-"]
Constraint4_2x(rs) ==
    \A h \in Heats :
        LET boat_type == BoatTypeOf(h[1])
            heat_name == HeatName(h[1], h[2] - 1)
        IN  (boat_type \in {Str_2x, Str_2minus} /\ Assigned(rs, {heat_name})) =>
                BeforeNoonIndicator(rs[heat_name])

\* Mutant of Constraint5: all-different over the distinct boat names only.
Constraint5_DistinctNames(bl) ==
    \A h \in Heats :
        LET heat_name == HeatName(h[1], h[2] - 1)
            boats == races[h[1]][h[2]]
            boat_names == [k \in 1..Len(boats) |-> BoatName(heat_name, boats[k])]
        IN  \A a, b \in 1..Len(boats) :
                (boat_names[a] # boat_names[b] /\ Assigned(bl, {boat_names[a], boat_names[b]})) =>
                    bl[boat_names[a]] # bl[boat_names[b]]

\* 5. model.AddAllDifferent([boat_lanes[boat_name] for boat_name in boat_names]):
\* the variables at any two positions of the list differ (a boat id listed twice
\* is the same variable at two positions)
Constraint5(bl) ==
    \A h \in Heats :
        LET heat_name == HeatName(h[1], h[2] - 1)
            boats == races[h[1]][h[2]]
            boat_names == [k \in 1..Len(boats) |-> BoatName(heat_name, boats[k])]
        IN  \A a, b \in 1..Len(boats) :
                (a < b /\ Assigned(bl, {boat_names[a], boat_names[b]})) =>
                    bl[boat_names[a]] # bl[boat_names[b]]

\* The constraints over race_starts; indicator says whether the before_noon
\* constraints of lines 53-60 are part of the model (they are: TRUE).
StartConstraints(rs, indicator) ==
    /\ Constraint1(rs)
    /\ Constraint2(rs)
    /\ Constraint4_1x(rs)
    /\ (indicator => Constraint4_2x(rs))
    /\ Constraint3(rs)

EmptyAssignment == [x \in {} |-> 0]

RECURSIVE SetToSeq(_)
SetToSeq(S) ==
    IF S = {} THEN <<>>
    ELSE LET x == CHOOSE y \in S : TRUE IN <<x>> \o SetToSeq(S \ {x})

\* The solver's search: every assignment that extends partial to the variables
\* from position k of the list on, over their domain, and violates no constraint.
RECURSIVE StartSearch(_, _, _)
StartSearch(k, partial, indicator) ==
    IF k > Len(sorted_races) THEN {partial}
    ELSE UNION {StartSearch(k + 1, ext, indicator) :
                ext \in {e \in {partial @@ (sorted_races[k] :> v) : v \in StartDomain} :
                            StartConstraints(e, indicator)}}

RECURSIVE LaneSearch(_, _)
LaneSearch(k, partial) ==
    IF k > Len(boat_vars) THEN {partial}
    ELSE UNION {LaneSearch(k + 1, ext) :
                ext \in {e \in {partial @@ (boat_vars[k] :> v) : v \in LaneDomain} :
                            Constraint5(e)}}

\* The assignments of race_starts, and of boat_lanes, that the constraints admit.
StartSolutions(indicator) == StartSearch(1, EmptyAssignment, indicator)
LaneSolutions == LaneSearch(1, EmptyAssignment)

\* The model of lines 9-67 has a solution: no constraint mentions both a start
\* time and a lane, so it admits the pairs of an admitted race_starts and an
\* admitted boat_lanes.
Feasible == StartSolutions(TRUE) # {} /\ LaneSolutions # {}

----------------------------------------------------------------------------
(* optimize_regatta_schedule *)

NoSolution == [race_starts |-> EmptyAssignment, boat_lanes |-> EmptyAssignment]
NoSchedule == EmptyAssignment

\* lines 9-67: building the model. sorted(race_starts.keys())[0] raises
\* IndexError when there is no heat.
BuildModel ==
    /\ pc = "build"
    /\ UNCHANGED <<race_definitions, boats_per_race, races, num_lanes, start_time,
                   end_time, status, solution, schedule, sorted_heats, race_number,
                   output>>
    /\ IF HeatNames = {}
       THEN /\ pc' = "exit"
            /\ outcome' = "IndexError"
            /\ UNCHANGED <<sorted_races, boat_vars>>
       ELSE /\ pc' = "solve"
            /\ sorted_races' = sorted(HeatNames)
            /\ boat_vars' = SetToSeq(BoatNames)
            /\ UNCHANGED outcome

\* lines 70-72: solver.Solve(model). The solver answers OPTIMAL or FEASIBLE with
\* any assignment the model admits, INFEASIBLE when there is none, or UNKNOWN
\* when the time limit ends the search.
Solve ==
    /\ pc = "solve"
    /\ pc' = "extract"
    /\ \/ /\ Feasible
          /\ status' \in {"OPTIMAL", "FEASIBLE"}
          /\ \E rs \in StartSolutions(TRUE), bl \in LaneSolutions :
                solution' = [race_starts |-> rs, boat_lanes |-> bl]
       \/ /\ ~Feasible
          /\ status' = "INFEASIBLE"
          /\ UNCHANGED solution
       \/ /\ status' = "UNKNOWN"
          /\ UNCHANGED solution
    /\ UNCHANGED <<race_definitions, boats_per_race, races, num_lanes, start_time,
                   end_time, sorted_races, boat_vars, outcome, schedule, sorted_heats,
                   race_number, output>>

\* lines 76-91: the schedule read from the solver's values
ExtractedSchedule ==
    [race_name \in DOMAIN races |->
        [heat_index \in 1..Len(races[race_name]) |->
            LET heat_name == HeatName(race_name, heat_index - 1)
                boats == races[race_name][heat_index]
            IN  [start_time |-> solution.race_starts[heat_name],
                 boat_lanes |->
                    [boat_id \in {boats[k] : k \in 1..Len(boats)} |->
                        solution.boat_lanes[BoatName(heat_name, boat_id)]]]]]

\* lines 74-94
Extract ==
    /\ pc = "extract"
    /\ pc' = "exit"
    /\ IF status \in {"OPTIMAL", "FEASIBLE"}
       THEN outcome' = "schedule" /\ schedule' = ExtractedSchedule
       ELSE outcome' = "None" /\ UNCHANGED schedule
    /\ UNCHANGED <<race_definitions, boats_per_race, races, num_lanes, start_time,
                   end_time, sorted_races, boat_vars, status, solution, sorted_heats,
                   race_number, output>>

----------------------------------------------------------------------------
(* Inputs of a call of optimize_regatta_schedule *)

MaxHeats == 3

Str_1x_A == <<49, 120, 95, 65>>         \* "1x_A"
Str_1xA_B == <<49, 120, 65, 95, 66>>    \* "1xA_B"
Str_2x_A == <<50, 120, 95, 65>>         \* "2x_A"
Str_2minus_A == <<50, 45, 95, 65>>      \* "2-_A"

\* Up to two races of these names and MaxHeats heats in all; a heat of one boat,
\* of two boats, or listing one boat id twice; one or two lanes; a first start
\* that leaves room before noon for every heat or for one only; windows one
\* minute short of, and exactly, 1..MaxHeats-1 slots.
RaceNames == {Str_1x, Str_1x_A, Str_1xA_B, Str_2x_A, Str_2minus_A}
BoatLists == {<<1>>, <<1, 2>>, <<1, 1>>}
LaneCounts == {1, 2}
StartTimes == {Noon - Cadence * (MaxHeats - 1) - 1, Noon - Cadence}
Windows == UNION {{Cadence * k - 1, Cadence * k} : k \in 1..(MaxHeats - 1)}

HeatLists == UNION {[1..n -> BoatLists] : n \in 0..MaxHeats}

RECURSIVE SumLen(_, _)
SumLen(f, S) ==
    IF S = {} THEN 0
    ELSE LET x == CHOOSE y \in S : TRUE IN Len(f[x]) + SumLen(f, S \ {x})

RaceInputs ==
    {f \in UNION {[S -> HeatLists] : S \in {T \in SUBSET RaceNames : Cardinality(T) <= 2}} :
        SumLen(f, DOMAIN f) <= MaxHeats}

Init ==
    /\ races \in RaceInputs
    /\ num_lanes \in LaneCounts
    /\ start_time \in StartTimes
    /\ end_time \in {start_time + w : w \in Windows}
    /\ race_definitions = EmptyAssignment
    /\ boats_per_race = EmptyAssignment
    /\ pc = "build"
    /\ sorted_races = <<>>
    /\ boat_vars = <<>>
    /\ status = "none"
    /\ solution = NoSolution
    /\ outcome = "running"
    /\ schedule = NoSchedule
    /\ sorted_heats = <<>>
    /\ race_number = 0
    /\ output = <<>>

Next == BuildModel \/ Solve \/ Extract

Spec == Init /\ [][Next]_vars

----------------------------------------------------------------------------
(* generate_races and the module-level script *)

\* f"{boat_type}_{category}_{division}"
RaceNameOf(boat_type, category, division) ==
    boat_type \o <<Ord_underscore>> \o category \o <<Ord_underscore>> \o division

\* lines 105-110: heats of boats 1..5, the last one cut to num_boats % 5 boats
\* when that is not 0
HeatsOf(num_boats) ==
    LET num_heats == (num_boats + 4) \div 5
        remaining_boats == num_boats % 5
    IN  [i \in 1..num_heats |->
            IF i = num_heats /\ remaining_boats > 0
            THEN [k \in 1..remaining_boats |-> k]
            ELSE <<1, 2, 3, 4, 5>>]

\* lines 100-111. (Were two triples to give one race name, Python would keep the
\* later one; the inputs below give distinct names.)
generate_races(definitions, per_race) ==
    LET triples ==
            UNION {UNION {{<<t, c, definitions[t][c][k]>> :
                                k \in 1..Len(definitions[t][c])} :
                          c \in DOMAIN definitions[t]} :
                   t \in DOMAIN definitions}
        names == {RaceNameOf(x[1], x[2], x[3]) : x \in triples}
    IN  [race_name \in names |->
            LET x == CHOOSE y \in triples : RaceNameOf(y[1], y[2], y[3]) = race_name
            IN  HeatsOf(per_race[x[1]])]

\* line 136, and lines 138-140: num_lanes = 5, start_time = 8 * 60, end_time = 17 * 60
GenerateRaces ==
    /\ pc = "generate"
    /\ races' = generate_races(race_definitions, boats_per_race)
    /\ num_lanes' = 5
    /\ start_time' = 8 * 60
    /\ end_time' = 17 * 60
    /\ pc' = "build"
    /\ UNCHANGED <<race_definitions, boats_per_race, sorted_races, boat_vars,
                   status, solution, outcome, schedule, sorted_heats, race_number,
                   output>>

\* Python's < on the tuples (start_time, heat_name, race_name, boat_lanes): two
\* tuples of one list differ in their heat_name at the latest.
TupleLess(x, y) ==
    \/ x[1] < y[1]
    \/ x[1] = y[1] /\ StrLess(x[2], y[2])

\* list.sort() on a list without duplicates
RECURSIVE SortTuples(_)
SortTuples(S) ==
    IF S = {} THEN <<>>
    ELSE LET m == CHOOSE x \in S : \A y \in S \ {x} : TupleLess(x, y)
         IN  <<m>> \o SortTuples(S \ {m})

\* lines 144-156: "if optimized_schedule:" (a schedule with at least one race),
\* the list of heat tuples, sorted, and race_number = 1. The header line that is
\* printed first is a constant and is left out of output.
SortHeats ==
    /\ pc = "exit"
    /\ outcome = "schedule"
    /\ DOMAIN schedule # {}
    /\ sorted_heats' =
            SortTuples(
                UNION {{<<schedule[r][i].start_time, HeatName(r, i - 1), r,
                          schedule[r][i].boat_lanes>> : i \in 1..Len(schedule[r])} :
                       r \in DOMAIN schedule})
    /\ race_number' = 1
    /\ pc' = "print"
    /\ UNCHANGED <<race_definitions, boats_per_race, races, num_lanes, start_time,
                   end_time, sorted_races, boat_vars, status, solution, outcome,
                   schedule, output>>

\* Mutant of LastHeatOfRace: the letter compared with the one after the last.
LastHeatOfRace_OffByOne(heat_name, race_name) ==
    heat_name[Len(heat_name)] = Ord_a + Len(schedule[race_name])

\* line 172: heat_name[-1] == chr(ord("a") + len(optimized_schedule[race_name]) - 1)
LastHeatOfRace(heat_name, race_name) ==
    heat_name[Len(heat_name)] = Ord_a + Len(schedule[race_name]) - 1

\* lines 161-165: the race number alone for a race of one heat, else the number
\* and the heat's letter (the number stands for its decimal digits)
HeatLabel(heat_name, race_name) ==
    IF Len(schedule[race_name]) = 1
    THEN <<race_number>>
    ELSE <<race_number, heat_name[Len(heat_name)]>>

\* lines 166-168: per lane the boat id printed as "Boat {id}", 0 for ""
LaneInfo(lanes) ==
    [l \in 1..num_lanes |->
        IF \E b \in DOMAIN lanes : lanes[b] = l
        THEN CHOOSE b \in DOMAIN lanes : lanes[b] = l
        ELSE 0]

\* lines 157-173: one turn of the loop. The loop assigns the module's start_time.
PrintHeat ==
    /\ pc = "print"
    /\ Len(output) < Len(sorted_heats)
    /\ LET item == sorted_heats[Len(output) + 1]
           heat_name == item[2]
           race_name == item[3]
           time == schedule[race_name][heat_name[Len(heat_name)] - Ord_a + 1].start_time
       IN  /\ start_time' = time
           /\ output' = Append(output,
                    [heat_label |-> HeatLabel(heat_name, race_name),
                     hours |-> time \div 60,
                     minutes |-> time % 60,
                     race_name |-> race_name,
                     lane_info |-> LaneInfo(item[4])])
           /\ race_number' =
                    IF LastHeatOfRace(heat_name, race_name)
                    THEN race_number + 1
                    ELSE race_number
    /\ pc' = IF Len(output) + 1 = Len(sorted_heats) THEN "done" ELSE "print"
    /\ UNCHANGED <<race_definitions, boats_per_race, races, num_lanes, end_time,
                   sorted_races, boat_vars, status, solution, outcome, schedule,
                   sorted_heats>>

\* Inputs of generate_races: the boat types "1x" and "2x", the category "Open",
\* the divisions "Mens" and "Womens"; 1, 5 or 6 boats per race of a type
MaxEntries == 7

Types == {Str_1x, Str_2x}
DivisionLists == {<<Str_Mens>>, <<Str_Mens, Str_Womens>>}
BoatCounts == {1, 5, 6}

RECURSIVE Entries(_, _, _)
Entries(definitions, per_race, T) ==
    IF T = {} THEN 0
    ELSE LET t == CHOOSE y \in T : TRUE
         IN  Len(definitions[t][Str_Open]) * per_race[t] +
             Entries(definitions, per_race, T \ {t})

InitReport ==
    /\ race_definitions \in
            UNION {[T -> [{Str_Open} -> DivisionLists]] : T \in SUBSET Types}
    /\ boats_per_race \in [Types -> BoatCounts]
    /\ Entries(race_definitions, boats_per_race, DOMAIN race_definitions) <= MaxEntries
    /\ races = EmptyAssignment
    /\ num_lanes = 0
    /\ start_time = 0
    /\ end_time = 0
    /\ pc = "generate"
    /\ sorted_races = <<>>
    /\ boat_vars = <<>>
    /\ status = "none"
    /\ solution = NoSolution
    /\ outcome = "running"
    /\ schedule = NoSchedule
    /\ sorted_heats = <<>>
    /\ race_number = 0
    /\ output = <<>>

NextReport == GenerateRaces \/ BuildModel \/ Solve \/ Extract \/ SortHeats \/ PrintHeat

SpecReport == InitReport /\ [][NextReport]_vars

----------------------------------------------------------------------------
(* Properties of the schedule optimize_regatta_schedule returns *)

Returned == pc = "exit" /\ outcome = "schedule"

\* the heats of the returned schedule, as (race_name, position) pairs
ScheduledHeats ==
    UNION {{<<r, i>> : i \in 1..Len(schedule[r])} : r \in DOMAIN schedule}

NameOf(h) == HeatName(h[1], h[2] - 1)
StartOf(h) == schedule[h[1]][h[2]].start_time
LanesOf(h) == schedule[h[1]][h[2]].boat_lanes

\* g comes right before h in the lexicographic order of the heat names
NextInNameOrder(g, h) ==
    /\ StrLess(NameOf(g), NameOf(h))
    /\ ~\E k \in ScheduledHeats :
            StrLess(NameOf(g), NameOf(k)) /\ StrLess(NameOf(k), NameOf(h))

\* the first "_"-separated segment of the race name is "1x"
IsClass1x(race_name) ==
    \/ race_name = Str_1x
    \/ Len(race_name) > 2 /\ SubSeq(race_name, 1, 3) = Str_1x \o <<Ord_underscore>>

IsClass2(race_name) ==
    \E c \in {Str_2x, Str_2minus} :
        \/ race_name = c
        \/ Len(race_name) > 2 /\ SubSeq(race_name, 1, 3) = c \o <<Ord_underscore>>

\* the number of heats of the input whose name sorts before the name of h
RankOf(h) == Cardinality({g \in Heats : StrLess(NameOf(g), NameOf(h))})
\* where the cadence chain puts heat h
ChainTime(h) == start_time + Cadence * RankOf(h)

\* C1 (Cadence): in every returned schedule, a heat whose name is the immediate
\* lexicographic successor of another heat's name starts exactly 8 minutes after it.
C1_Cadence ==
    Returned =>
        \A g, h \in ScheduledHeats :
            NextInNameOrder(g, h) => StartOf(h) = StartOf(g) + 8

\* a returned schedule of three heats in which the order of the heat names
\* reverses the order of two race names ("1x_A_Heat_a" < "1x_Heat_a")
C1_Witness ==
    /\ Returned
    /\ Cardinality(ScheduledHeats) = 3
    /\ \E g, h, k \in ScheduledHeats : NextInNameOrder(g, h) /\ NextInNameOrder(h, k)
    /\ \E g, h \in ScheduledHeats :
            NextInNameOrder(g, h) /\ StrLess(h[1], g[1]) /\ StartOf(h) = StartOf(g) + 8

\* C2 (Anchor): in every returned schedule the heat with the lexicographically
\* first name starts at start_time, and no other heat does.
C2_Anchor ==
    Returned =>
        \E g \in ScheduledHeats :
            /\ \A h \in ScheduledHeats \ {g} : StrLess(NameOf(g), NameOf(h))
            /\ StartOf(g) = start_time
            /\ \A h \in ScheduledHeats \ {g} : StartOf(h) # start_time

\* a returned schedule of several heats whose anchored heat is not of the race
\* with the smallest name
C2_Witness ==
    /\ Returned
    /\ Cardinality(ScheduledHeats) > 1
    /\ \E g, h \in ScheduledHeats : StartOf(g) = start_time /\ StrLess(h[1], g[1])

\* C3 (Lane uniqueness): in every heat of a returned schedule every boat of the
\* heat has a lane in 1..num_lanes, boats at two positions of the heat have
\* different lanes, and the heat has as many distinct lanes as boats.
C3_LaneUniqueness ==
    Returned =>
        \A h \in ScheduledHeats :
            LET boats == races[h[1]][h[2]]
                lanes == LanesOf(h)
            IN  /\ \A k \in 1..Len(boats) :
                        boats[k] \in DOMAIN lanes /\ lanes[boats[k]] \in 1..num_lanes
                /\ \A a, b \in 1..Len(boats) : a # b => lanes[boats[a]] # lanes[boats[b]]
                /\ Cardinality({lanes[b] : b \in DOMAIN lanes}) = Len(boats)

C3_Witness ==
    /\ Returned
    /\ \E h \in ScheduledHeats :
            Len(races[h[1]][h[2]]) = 2 /\ LanesOf(h)[1] = 2 /\ LanesOf(h)[2] = 1

\* C4 (1x priority): every heat of a "1x" race of a returned schedule starts
\* before 720, and no schedule is returned when the cadence chain puts a heat of
\* a "1x" race at 720 or later.
C4_Priority1x ==
    pc = "exit" =>
        /\ outcome = "schedule" =>
                \A h \in ScheduledHeats : IsClass1x(h[1]) => StartOf(h) < 720
        /\ (\E h \in Heats : IsClass1x(h[1]) /\ ChainTime(h) >= 720) =>
                outcome # "schedule"

\* a returned schedule with a "1x" heat in the last slot before noon and a heat
\* of another class at or after noon
C4_Witness ==
    /\ Returned
    /\ \E g, h \in ScheduledHeats :
            /\ IsClass1x(g[1]) /\ StartOf(g) = 720 - 8
            /\ ~IsClass1x(h[1]) /\ StartOf(h) >= 720

\* the heats of the returned schedule that occupy their lanes at minute t
ConcurrentAt(t) ==
    {h \in ScheduledHeats : StartOf(h) <= t /\ t < StartOf(h) + 8}

\* C5 (Capacity): in every returned schedule, at every minute t, the heats with
\* start_time <= t < start_time + 8 are at most num_lanes, and at most one.
C5_Capacity ==
    (Returned /\ num_lanes >= 1) =>
        \A t \in (start_time - 8)..(end_time + 8) :
            /\ Cardinality(ConcurrentAt(t)) <= num_lanes
            /\ Cardinality(ConcurrentAt(t)) <= 1

\* a returned one-lane schedule of three heats, the last one starting at end_time
C5_Witness ==
    /\ Returned
    /\ num_lanes = 1
    /\ Cardinality(ScheduledHeats) = 3
    /\ \E h \in ScheduledHeats : StartOf(h) = end_time /\ ConcurrentAt(end_time) = {h}

\* the inputs C6 is about: one lane, more than one heat, one boat in each heat
OneLaneOneBoat ==
    /\ num_lanes = 1
    /\ Cardinality(Heats) > 1
    /\ \A h \in Heats : Len(races[h[1]][h[2]]) = 1

\* C6 as claimed (Infeasibility detection): with one lane and N > 1 one-boat
\* heats, end_time - start_time < 8 * N makes the call return None.
C6_Claimed ==
    (pc = "exit" /\ OneLaneOneBoat /\ end_time - start_time < 8 * Cardinality(Heats)) =>
        outcome = "None"

\* C6 amended: with one lane and N > 1 one-boat heats,
\* end_time - start_time < 8 * (N - 1) makes the call return None.
C6_Amended ==
    (pc = "exit" /\ OneLaneOneBoat /\ end_time - start_time < 8 * (Cardinality(Heats) - 1)) =>
        outcome = "None"

\* two one-boat heats of a race without a priority window, a 7-minute window,
\* the solver answering INFEASIBLE
C6_Witness ==
    /\ pc = "exit"
    /\ OneLaneOneBoat
    /\ \A h \in Heats : ~IsClass1x(h[1])
    /\ end_time - start_time = 8 * (Cardinality(Heats) - 1) - 1
    /\ status = "INFEASIBLE"
    /\ outcome = "None"

\* the schedule has, for every race, one entry per heat, each with a lane for
\* exactly the boat ids of the heat
CompleteSchedule ==
    /\ DOMAIN schedule = DOMAIN races
    /\ \A r \in DOMAIN races :
            /\ Len(schedule[r]) = Len(races[r])
            /\ \A i \in 1..Len(races[r]) :
                    /\ schedule[r][i].start_time \in start_time..end_time
                    /\ DOMAIN schedule[r][i].boat_lanes =
                            {races[r][i][k] : k \in 1..Len(races[r][i])}

\* C7 as claimed (All-or-nothing): every call ends by returning None (solver
\* INFEASIBLE or UNKNOWN) or a complete schedule (solver OPTIMAL or FEASIBLE),
\* never by raising an exception.
C7_Claimed ==
    pc = "exit" =>
        \/ outcome = "None" /\ status \in {"INFEASIBLE", "UNKNOWN"}
        \/ outcome = "schedule" /\ status \in {"OPTIMAL", "FEASIBLE"} /\ CompleteSchedule

\* the model is built and about to be handed to the solver
ModelBuilt == pc = "solve"

\* C9 (the before-noon indicator imposes nothing): the model admits exactly the
\* start times it admits without the indicator constraints of lines 53-60.
C9_IndicatorImposesNothing ==
    ModelBuilt => StartSolutions(TRUE) = StartSolutions(FALSE)

\* a returned schedule in which a "2x" or "2-" heat starts at or after 720
C9_Witness ==
    /\ Returned
    /\ \E h \in ScheduledHeats : IsClass2(h[1]) /\ StartOf(h) >= 720

\* the three conditions of C10
CondWindow == start_time + 8 * (Cardinality(Heats) - 1) <= end_time
CondPriority == \A h \in Heats : IsClass1x(h[1]) => ChainTime(h) < 720
CondBoats ==
    \A h \in Heats :
        LET boats == races[h[1]][h[2]]
        IN  /\ \A a, b \in 1..Len(boats) : a # b => boats[a] # boats[b]
            /\ Len(boats) <= num_lanes

\* C10 (feasibility characterised, start times determined): with N >= 1 heats
\* and num_lanes >= 1 the model has a solution iff the chain fits the window,
\* puts every "1x" heat before 720, and every heat has distinct boat ids and
\* at most num_lanes boats; every solution starts heat i at start_time + 8 * i.
C10_Characterised ==
    (ModelBuilt /\ Cardinality(Heats) >= 1 /\ num_lanes >= 1) =>
        /\ Feasible <=> (CondWindow /\ CondPriority /\ CondBoats)
        /\ \A rs \in StartSolutions(TRUE) :
                \A h \in Heats : rs[NameOf(h)] = ChainTime(h)

\* a feasible model of three heats with two admitted lane assignments
C10_Witness ==
    /\ ModelBuilt
    /\ Cardinality(Heats) = 3
    /\ Feasible
    /\ Cardinality(LaneSolutions) > 1

----------------------------------------------------------------------------
(* Properties of the printed running order *)

Printed == pc = "done"

LineTime(line) == 60 * line.hours + line.minutes
LineNumber(line) == line.heat_label[1]
\* the heat a line stands for: heat a when the label is the bare number
LineHeat(line) ==
    HeatName(line.race_name,
             IF Len(line.heat_label) = 1 THEN 0 ELSE line.heat_label[2] - Ord_a)

\* the lines printed before line i for the same race
EarlierOfRace(i) == {j \in 1..(i - 1) : output[j].race_name = output[i].race_name}

\* C8 (Report numbering and order): the report has one line per heat, in
\* strictly ascending start time, which is the lexicographic order of the heat
\* names; the first line has number 1, a line of the same race as the line
\* before it has the same number and a line of another race the next number; a
\* race of one heat is labelled with the bare number, the heats of a race of
\* several heats are consecutive lines that carry the letters a, b, c, ... in order.
C8_ReportOrder ==
    Printed =>
        /\ Len(output) = Cardinality(ScheduledHeats)
        /\ \A h \in ScheduledHeats :
                \E i \in 1..Len(output) :
                    LineHeat(output[i]) = NameOf(h) /\ LineTime(output[i]) = StartOf(h)
        /\ \A i \in 1..(Len(output) - 1) :
                /\ LineTime(output[i]) < LineTime(output[i + 1])
                /\ StrLess(LineHeat(output[i]), LineHeat(output[i + 1]))
                /\ LineNumber(output[i + 1]) =
                        IF output[i + 1].race_name = output[i].race_name
                        THEN LineNumber(output[i])
                        ELSE LineNumber(output[i]) + 1
        /\ LineNumber(output[1]) = 1
        /\ \A i \in 1..Len(output) :
                LET r == output[i].race_name
                IN  /\ Len(schedule[r]) = 1 => output[i].heat_label = <<LineNumber(output[i])>>
                    /\ Len(schedule[r]) > 1 =>
                            /\ Len(output[i].heat_label) = 2
                            /\ output[i].heat_label[2] = Ord_a + Cardinality(EarlierOfRace(i))
                            /\ \A j \in EarlierOfRace(i) : \A k \in j..i :
                                    output[k].race_name = r

\* a printed report of a race of two heats (1a, 1b) followed by a race of one
\* heat (2)
C8_Witness ==
    /\ Printed
    /\ Len(output) = 3
    /\ output[1].heat_label = <<1, Ord_a>>
    /\ output[2].heat_label = <<1, Ord_a + 1>>
    /\ output[3].heat_label = <<2>>

====
